---- MODULE Spec2Model ----
(***************************************************************************)
(* State-machine model of the tarq streaming indicators: the constructors, *)
(* the lazy step (`next`) and the bulk drain (`calculate`) of Sma, Ema,    *)
(* Wma, Vwma, Dema, Tema, Kama, Atr, StdDev, BBands and Bbpb.              *)
(*                                                                         *)
(* One behaviour of the model follows one indicator instance: the caller   *)
(* picks the constructor and its arguments (Init), calls the constructor,  *)
(* and then calls next() and calculate() in any order.                     *)
(*                                                                         *)
(* f64 values are modelled as exact rationals n/d (d = 0 encodes the       *)
(* IEEE-754 specials: n = 0 NaN, n = 1 +inf, n = -1 -inf); rounding error  *)
(* of double arithmetic is outside the model.  A square root is kept as an *)
(* exact surd c * sqrt(r).                                                 *)
(***************************************************************************)
EXTENDS Integers, Sequences, FiniteSets, TLC

\* ------------------------------------------------------------------------
\* Bounds of the model
\* ------------------------------------------------------------------------
MaxLen == 4

MaxPeriod == 3

MaxDdof == 2

\* largest capacity of a CircularBuffer
MaxCapacity == 3

\* most values pushed onto one CircularBuffer
MaxPushes == 4

\* bits in the significand of the floating-point model of Kama
MantissaBits == 3

\* binary exponents of the last place that model covers
MinExp == 0 - 12

MaxExp == 4

\* ------------------------------------------------------------------------
\* Exact rational arithmetic standing in for f64
\* ------------------------------------------------------------------------
Abs(x) == IF x < 0 THEN -x ELSE x

Sgn(x) == IF x < 0 THEN -1 ELSE IF x = 0 THEN 0 ELSE 1

RECURSIVE GCD(_, _)
GCD(a, b) == IF b = 0 THEN a ELSE GCD(b, a % b)

Q(n, d) ==
    IF d = 0 THEN [n |-> Sgn(n), d |-> 0]
    ELSE LET g == GCD(Abs(n), Abs(d))
         IN  [n |-> (Sgn(d) * n) \div g, d |-> Abs(d) \div g]

Z(i) == [n |-> i, d |-> 1]

NaN == [n |-> 0, d |-> 0]

IsFinite(a) == a.d # 0

RNeg(a) == [n |-> -a.n, d |-> a.d]

RAdd(a, b) ==
    IF a.d = 0 /\ b.d = 0 THEN (IF a.n = b.n THEN a ELSE NaN)
    ELSE IF a.d = 0 THEN a
    ELSE IF b.d = 0 THEN b
    ELSE LET g == GCD(a.d, b.d)
         IN  Q(a.n * (b.d \div g) + b.n * (a.d \div g), (a.d \div g) * b.d)

RSub(a, b) == RAdd(a, RNeg(b))

RMul(a, b) ==
    IF a.d = 0 \/ b.d = 0 THEN Q(a.n * b.n, 0)
    ELSE LET g1 == GCD(Abs(a.n), b.d)
             g2 == GCD(Abs(b.n), a.d)
         IN  Q((a.n \div g1) * (b.n \div g2), (a.d \div g2) * (b.d \div g1))

RDiv(a, b) ==
    LET n == a.n * b.d
        d == a.d * b.n
    IN  IF d = 0
        THEN [n |-> Sgn(n) * (IF b.n < 0 THEN -1 ELSE 1), d |-> 0]
        ELSE Q(n, d)

RAbs(a) == [n |-> Abs(a.n), d |-> a.d]

\* a < b on finite values
RLt(a, b) == a.n * b.d < b.n * a.d

\* f64::max: a NaN operand is ignored
RMax(a, b) ==
    IF a = NaN THEN b
    ELSE IF b = NaN THEN a
    ELSE IF a.d = 0 THEN (IF a.n > 0 THEN a ELSE b)
    ELSE IF b.d = 0 THEN (IF b.n > 0 THEN b ELSE a)
    ELSE IF RLt(a, b) THEN b ELSE a

\* ------------------------------------------------------------------------
\* Slices (Rust indices are 0-based)
\* ------------------------------------------------------------------------
At(s, i) == s[i + 1]

InB(s, i) == i >= 0 /\ i < Len(s)

Min(a, b) == IF a < b THEN a ELSE b

\* usize::saturating_sub
saturating_sub(a, b) == IF a > b THEN a - b ELSE 0

\* s[lo..hi] of an integer slice, as rationals
Slice(s, lo, hi) == [j \in 1..(hi - lo) |-> Z(s[lo + j])]

RECURSIVE RSum(_)
RSum(s) == IF Len(s) = 0 THEN Z(0) ELSE RAdd(RSum(SubSeq(s, 1, Len(s) - 1)), s[Len(s)])

\* iter().take(k).sum()
SumTake(s, k) == RSum(Slice(s, 0, Min(k, Len(s))))

\* ------------------------------------------------------------------------
\* Results of constructors and of next()
\* ------------------------------------------------------------------------
NoObj == [kind |-> "none"]

NoVal == [none |-> TRUE]

Ok(o) == [st |-> "ok", obj |-> o, err |-> ""]

Err(msg) == [st |-> "err", obj |-> NoObj, err |-> msg]

\* a panic inside the constructor (unwrap of an Err)
NewPanic == [st |-> "panic", obj |-> NoObj, err |-> ""]

Some(o, v) == [obj |-> o, ret |-> "Some", val |-> v]

None(o) == [obj |-> o, ret |-> "None", val |-> NoVal]

Panic(o) == [obj |-> o, ret |-> "Panic", val |-> NoVal]

\* ------------------------------------------------------------------------
\* Sma
\* ------------------------------------------------------------------------
SmaNew(data, period) ==
    IF period = 0 THEN Err("Period must be greater than zero.")
    ELSE IF Len(data) < period THEN Err("Insufficient data for SMA calculation.")
    ELSE Ok([kind |-> "Sma", data |-> data, period |-> period, index |-> 0,
             sum |-> SumTake(data, period), len |-> Len(data),
             inv_period |-> RDiv(Z(1), Z(period))])

\* SmaNext with the cursor advanced before the exhaustion check
SmaNext_AdvanceFirst(o) ==
    IF o.index > o.len - o.period THEN None([o EXCEPT !.index = o.index + 1])
    ELSE LET result == RMul(o.sum, o.inv_period)
             sum2 == IF InB(o.data, o.index + o.period)
                     THEN RSub(RAdd(o.sum, Z(At(o.data, o.index + o.period))),
                               Z(At(o.data, o.index)))
                     ELSE o.sum
         IN  Some([o EXCEPT !.sum = sum2, !.index = o.index + 1], result)

\* SmaNext subtracting the sample after the outgoing one
SmaNext_WrongOutgoing(o) ==
    IF o.index > o.len - o.period THEN None(o)
    ELSE LET result == RMul(o.sum, o.inv_period)
             sum2 == IF InB(o.data, o.index + o.period)
                     THEN RSub(RAdd(o.sum, Z(At(o.data, o.index + o.period))),
                               Z(At(o.data, o.index + 1)))
                     ELSE o.sum
         IN  Some([o EXCEPT !.sum = sum2, !.index = o.index + 1], result)

SmaNext(o) ==
    IF o.index > o.len - o.period THEN None(o)
    ELSE LET result == RMul(o.sum, o.inv_period)
             sum2 == IF InB(o.data, o.index + o.period)
                     THEN RSub(RAdd(o.sum, Z(At(o.data, o.index + o.period))),
                               Z(At(o.data, o.index)))
                     ELSE o.sum
         IN  Some([o EXCEPT !.sum = sum2, !.index = o.index + 1], result)

\* ------------------------------------------------------------------------
\* Ema
\* ------------------------------------------------------------------------
EmaNew(data, period) ==
    IF period = 0 THEN Err("Period must be greater than 0")
    ELSE IF Len(data) < period THEN Err("Period cannot be greater than input data length")
    ELSE Ok([kind |-> "Ema", data |-> data, period |-> period, index |-> 0,
             prev_ema |-> Z(0), smoothing |-> RDiv(Z(2), Z(period + 1))])

\* EmaUpdate with the weights of the sample and of the previous value swapped
EmaUpdate_SwappedWeights(prev, x, smoothing) ==
    RAdd(RMul(RSub(prev, x), smoothing), x)

\* (x - prev) * smoothing + prev
EmaUpdate(prev, x, smoothing) == RAdd(RMul(RSub(x, prev), smoothing), prev)

EmaNext(o) ==
    IF o.index + o.period > Len(o.data) THEN None(o)
    ELSE IF o.index = 0
    THEN LET e == RDiv(RSum(Slice(o.data, 0, o.period)), Z(o.period))
         IN  Some([o EXCEPT !.prev_ema = e, !.index = 1], e)
    ELSE IF o.index < Len(o.data)
    THEN LET e == EmaUpdate(o.prev_ema, Z(At(o.data, o.index + o.period - 1)), o.smoothing)
         IN  Some([o EXCEPT !.prev_ema = e, !.index = o.index + 1], e)
    ELSE None(o)

\* ------------------------------------------------------------------------
\* Wma
\* ------------------------------------------------------------------------
WmaNew(data, period) ==
    IF period = 0 THEN Err("Period must be greater than 0.")
    ELSE IF Len(data) < period THEN Err("Period cannot be greater than input data length.")
    ELSE Ok([kind |-> "Wma", data |-> data, period |-> period, index |-> 0,
             period_sum |-> Z(0), period_sub |-> Z(0),
             weight_total |-> Z((period * (period + 1)) \div 2)])

\* sum over the first k elements of price * (i + 1)
WeightedTake(s, k) ==
    RSum([j \in 1..Min(k, Len(s)) |-> Z(s[j] * j)])

\* WmaNext with period_sub rolled forward before it is taken off period_sum
WmaNext_SubRolledFirst(o) ==
    IF o.index + o.period > Len(o.data) THEN None(o)
    ELSE IF o.index = 0
    THEN LET ps == WeightedTake(o.data, o.period)
             sub == SumTake(o.data, o.period)
         IN  Some([o EXCEPT !.period_sum = ps, !.period_sub = sub, !.index = 1],
                  RDiv(ps, o.weight_total))
    ELSE LET incoming == Z(At(o.data, o.index + o.period - 1))
             sub == RSub(RAdd(o.period_sub, incoming), Z(At(o.data, o.index - 1)))
             ps == RSub(RAdd(o.period_sum, RMul(incoming, Z(o.period))), sub)
         IN  Some([o EXCEPT !.period_sum = ps, !.period_sub = sub,
                            !.index = o.index + 1],
                  RDiv(ps, o.weight_total))

WmaNext(o) ==
    IF o.index + o.period > Len(o.data) THEN None(o)
    ELSE IF o.index = 0
    THEN LET ps == WeightedTake(o.data, o.period)
             sub == SumTake(o.data, o.period)
         IN  Some([o EXCEPT !.period_sum = ps, !.period_sub = sub, !.index = 1],
                  RDiv(ps, o.weight_total))
    ELSE LET incoming == Z(At(o.data, o.index + o.period - 1))
             ps == RSub(RAdd(o.period_sum, RMul(incoming, Z(o.period))), o.period_sub)
             sub == RSub(RAdd(o.period_sub, incoming), Z(At(o.data, o.index - 1)))
         IN  Some([o EXCEPT !.period_sum = ps, !.period_sub = sub,
                            !.index = o.index + 1],
                  RDiv(ps, o.weight_total))

\* ------------------------------------------------------------------------
\* Vwma
\* ------------------------------------------------------------------------
\* VwmaNew comparing the lengths before looking at the period
VwmaNew_MismatchFirst(data, volume, period) ==
    IF Len(data) # Len(volume) THEN Err("Data and volume must have the same length.")
    ELSE IF period = 0 THEN Err("Period must be set to a number greater than 0")
    ELSE IF Len(data) < period THEN Err("Period cannot be greater than input data length.")
    ELSE Ok([kind |-> "Vwma", data |-> data, volume |-> volume, period |-> period,
             index |-> 0, rolling_sum |-> Z(0), rolling_sum_vol |-> Z(0)])

VwmaNew(data, volume, period) ==
    IF period = 0 THEN Err("Period must be set to a number greater than 0")
    ELSE IF Len(data) < period THEN Err("Period cannot be greater than input data length.")
    ELSE IF Len(data) # Len(volume) THEN Err("Data and volume must have the same length.")
    ELSE Ok([kind |-> "Vwma", data |-> data, volume |-> volume, period |-> period,
             index |-> 0, rolling_sum |-> Z(0), rolling_sum_vol |-> Z(0)])

\* VwmaNext weighting the outgoing price with the incoming volume
VwmaNext_UnpairedOutgoing(o) ==
    IF o.index + o.period > Len(o.data) THEN None(o)
    ELSE IF o.index = 0
    THEN IF o.period > Len(o.volume) THEN Panic(o)
         ELSE LET rs == RSum([j \in 1..o.period |-> Z(o.data[j] * o.volume[j])])
                  rv == RSum(Slice(o.volume, 0, o.period))
              IN  Some([o EXCEPT !.rolling_sum = rs, !.rolling_sum_vol = rv, !.index = 1],
                       RDiv(rs, rv))
    ELSE LET outgoing_index == o.index - 1
             incoming_index == o.index + o.period - 1
             slide == o.index + o.period <= Len(o.data)
         IN  IF slide /\ ~InB(o.volume, incoming_index) THEN Panic(o)
             ELSE LET rs == IF slide
                            THEN RAdd(o.rolling_sum,
                                      RSub(Z(At(o.data, incoming_index) * At(o.volume, incoming_index)),
                                           Z(At(o.data, outgoing_index) * At(o.volume, incoming_index))))
                            ELSE o.rolling_sum
                      rv == IF slide
                            THEN RAdd(o.rolling_sum_vol,
                                      RSub(Z(At(o.volume, incoming_index)),
                                           Z(At(o.volume, outgoing_index))))
                            ELSE o.rolling_sum_vol
                  IN  Some([o EXCEPT !.rolling_sum = rs, !.rolling_sum_vol = rv,
                                     !.index = o.index + 1],
                           RDiv(rs, rv))

VwmaNext(o) ==
    IF o.index + o.period > Len(o.data) THEN None(o)
    ELSE IF o.index = 0
    THEN IF o.period > Len(o.volume) THEN Panic(o)
         ELSE LET rs == RSum([j \in 1..o.period |-> Z(o.data[j] * o.volume[j])])
                  rv == RSum(Slice(o.volume, 0, o.period))
              IN  Some([o EXCEPT !.rolling_sum = rs, !.rolling_sum_vol = rv, !.index = 1],
                       RDiv(rs, rv))
    ELSE LET outgoing_index == o.index - 1
             incoming_index == o.index + o.period - 1
             slide == o.index + o.period <= Len(o.data)
         IN  IF slide /\ ~InB(o.volume, incoming_index) THEN Panic(o)
             ELSE LET rs == IF slide
                            THEN RAdd(o.rolling_sum,
                                      RSub(Z(At(o.data, incoming_index) * At(o.volume, incoming_index)),
                                           Z(At(o.data, outgoing_index) * At(o.volume, outgoing_index))))
                            ELSE o.rolling_sum
                      rv == IF slide
                            THEN RAdd(o.rolling_sum_vol,
                                      RSub(Z(At(o.volume, incoming_index)),
                                           Z(At(o.volume, outgoing_index))))
                            ELSE o.rolling_sum_vol
                  IN  Some([o EXCEPT !.rolling_sum = rs, !.rolling_sum_vol = rv,
                                     !.index = o.index + 1],
                           RDiv(rs, rv))

\* ------------------------------------------------------------------------
\* Dema
\* ------------------------------------------------------------------------
\* successive EMA values of the inputs xs, starting from prev
RECURSIVE EmaRun(_, _, _)
EmaRun(prev, xs, smoothing) ==
    IF Len(xs) = 0 THEN <<>>
    ELSE LET e == EmaUpdate(prev, Head(xs), smoothing)
         IN  <<e>> \o EmaRun(e, Tail(xs), smoothing)

Last(s) == s[Len(s)]

\* the seed followed by the successive EMA values of xs
EmaSeeded(seed, xs, smoothing) == <<seed>> \o EmaRun(seed, xs, smoothing)

\* store the two EMAs, advance the cursor and yield 2 * EMA1 - EMA2
DemaEmit(o, e1, e2) ==
    Some([o EXCEPT !.prev_ema1 = e1, !.prev_ema2 = e2, !.index = o.index + 1],
         RSub(RMul(Z(2), e1), e2))

DemaNew(data, period) ==
    IF period = 0 THEN Err("Period must be greater than 0")
    ELSE IF Len(data) < period THEN Err("Period cannot be greater than input data length")
    ELSE Ok([kind |-> "Dema", data |-> data, index |-> 0, period |-> period,
             prev_ema1 |-> Z(0), prev_ema2 |-> Z(0),
             smoothing |-> RDiv(Z(2), Z(period + 1))])

\* the initialisation branch of next(), over the collected EMA1 values
DemaInit(o, ema1_values) ==
    DemaEmit(o, Last(ema1_values), RDiv(RSum(ema1_values), Z(o.period)))

\* the steady branch of next(), over the updated EMA1
DemaSteady(o, e1) == DemaEmit(o, e1, EmaUpdate(o.prev_ema2, e1, o.smoothing))

DemaNext(o) ==
    IF o.index + (2 * o.period - 2) >= Len(o.data) THEN None(o)
    ELSE IF o.index = 0
    THEN DemaInit(o, EmaSeeded(RDiv(RSum(Slice(o.data, 0, o.period)), Z(o.period)),
                               Slice(o.data, o.period, 2 * o.period - 1), o.smoothing))
    ELSE DemaSteady(o, EmaUpdate(o.prev_ema1,
                                 Z(At(o.data, o.index + (2 * o.period - 2))),
                                 o.smoothing))

\* ------------------------------------------------------------------------
\* Tema
\* ------------------------------------------------------------------------
TemaNew(data, period) ==
    IF period = 0 THEN Err("Period must be greater than 0")
    ELSE IF Len(data) < period THEN Err("Period cannot be greater than input data length")
    ELSE Ok([kind |-> "Tema", data |-> data, index |-> 0, period |-> period,
             prev_ema1 |-> Z(0), prev_ema2 |-> Z(0), prev_ema3 |-> Z(0),
             smoothing |-> RDiv(Z(2), Z(period + 1)), len |-> Len(data)])

\* iter().take(t).skip(k) of a sequence of values
TakeSkip(s, t, k) == IF Min(t, Len(s)) <= k THEN <<>> ELSE SubSeq(s, k + 1, Min(t, Len(s)))

\* store the three EMAs, advance the cursor and yield 3 * EMA1 - 3 * EMA2 + EMA3
TemaEmit(o, e1, e2, e3) ==
    Some([o EXCEPT !.prev_ema1 = e1, !.prev_ema2 = e2, !.prev_ema3 = e3,
                   !.index = o.index + 1],
         RAdd(RSub(RMul(Z(3), e1), RMul(Z(3), e2)), e3))

\* steps 5 and 6 of the initialisation, over the collected EMA2 values
TemaInit3(o, e1, ema2_values) ==
    TemaEmit(o, e1, Last(ema2_values), RDiv(RSum(ema2_values), Z(o.period)))

\* steps 3 and 4 of the initialisation, over the collected EMA1 values
TemaInit2(o, ema1_values) ==
    TemaInit3(o, Last(ema1_values),
              EmaSeeded(RDiv(RSum(TakeSkip(ema1_values, o.period, 0)), Z(o.period)),
                        TakeSkip(ema1_values, 2 * o.period - 1, o.period),
                        o.smoothing))

\* the steady branch of next()
TemaSteady2(o, e1, e2) == TemaEmit(o, e1, e2, EmaUpdate(o.prev_ema3, e2, o.smoothing))

TemaSteady(o, e1) == TemaSteady2(o, e1, EmaUpdate(o.prev_ema2, e1, o.smoothing))

TemaNext(o) ==
    IF o.index + (3 * o.period - 3) >= Len(o.data) THEN None(o)
    ELSE IF o.index = 0
    THEN TemaInit2(o, EmaSeeded(RDiv(RSum(Slice(o.data, 0, o.period)), Z(o.period)),
                                TakeSkip(Slice(o.data, 0, Len(o.data)),
                                         3 * o.period - 2, o.period),
                                o.smoothing))
    ELSE TemaSteady(o, EmaUpdate(o.prev_ema1,
                                 Z(At(o.data, o.index + (3 * o.period - 3))),
                                 o.smoothing))

\* ------------------------------------------------------------------------
\* Kama
\* ------------------------------------------------------------------------
\* |data[i] - data[i-1]|
AbsDelta(data, i) == RAbs(RSub(Z(At(data, i)), Z(At(data, i - 1))))

KamaNew(data, period, fast, slow) ==
    IF period = 0 THEN Err("Period must be greater than 0.")
    ELSE IF Len(data) < period THEN Err("Period cannot be greater than input data length.")
    ELSE IF Len(data) <= 1 THEN Err("Data length must be greater than 1.")
    ELSE Ok([kind |-> "Kama", data |-> data, period |-> period,
             fast |-> RDiv(Z(2), Z(fast + 1)), slow |-> RDiv(Z(2), Z(slow + 1)),
             index |-> period,
             prev_kama |-> Z(At(data, period - 1)),
             sum_roc |-> RSum([j \in 1..(period - 1) |-> AbsDelta(data, j)]),
             trailing_value |-> Z(At(data, 0))])

\* SumRoc without the removal of the oldest delta
SumRoc_KeepsOldest(o, start_index) ==
    RAdd(o.sum_roc, AbsDelta(o.data, start_index))

\* the rolling sum of absolute price changes after the update in calculate_er
SumRoc(o, start_index) ==
    RAdd(RSub(o.sum_roc,
              RAbs(RSub(Z(At(o.data, start_index - o.period)), o.trailing_value))),
         AbsDelta(o.data, start_index))

\* calculate_er without the test for a zero sum_roc
calculate_er_NoZeroTest(o, start_index, sum_roc) ==
    RDiv(RAbs(RSub(Z(At(o.data, start_index)),
                   Z(At(o.data, start_index - o.period)))),
         sum_roc)

\* the efficiency ratio calculate_er returns, given the updated sum_roc
calculate_er(o, start_index, sum_roc) ==
    IF sum_roc = Z(0) THEN Z(0)
    ELSE RDiv(RAbs(RSub(Z(At(o.data, start_index)),
                        Z(At(o.data, start_index - o.period)))),
              sum_roc)

calculate_sc(o, er) ==
    (LET sc == RAdd(RMul(er, RSub(o.fast, o.slow)), o.slow) IN RMul(sc, sc))

\* the EMA-like update of next(), given the smoothing constant
KamaEmit(o, sum_roc, kama) ==
    Some([o EXCEPT !.sum_roc = sum_roc,
                   !.trailing_value = Z(At(o.data, o.index - o.period)),
                   !.prev_kama = kama, !.index = o.index + 1],
         kama)

KamaStep(o, sum_roc) ==
    KamaEmit(o, sum_roc,
             RAdd(o.prev_kama,
                  RMul(calculate_sc(o, calculate_er(o, o.index, sum_roc)),
                       RSub(Z(At(o.data, o.index)), o.prev_kama))))

KamaNext(o) ==
    IF o.index >= Len(o.data) THEN None(o)
    ELSE KamaStep(o, SumRoc(o, o.index))

\* ------------------------------------------------------------------------
\* Kama in floating point: every f64 operation rounds its exact result to
\* the nearest value with a significand of MantissaBits bits, ties to even
\* (IEEE 754 round-to-nearest with the significand shortened)
\* ------------------------------------------------------------------------
\* num/den rounded to the nearest integer, ties to even
RoundDiv(num, den) ==
    LET m == num \div den
        r == num - m * den
    IN  IF 2 * r > den \/ (2 * r = den /\ m % 2 = 1) THEN m + 1 ELSE m

\* a / 2^e
Scaled(a, e) == IF e >= 0 THEN RDiv(a, Z(2 ^ e)) ELSE RMul(a, Z(2 ^ (-e)))

\* the f64 nearest to the exact result q: with e the binary exponent of its
\* last place, the significand |q| / 2^e rounded to an integer, times 2^e
Fl(q) ==
    IF q.d = 0 \/ q.n = 0 THEN q
    ELSE LET e == CHOOSE x \in MinExp..MaxExp :
                      /\ ~RLt(Scaled(RAbs(q), x), Z(2 ^ (MantissaBits - 1)))
                      /\ RLt(Scaled(RAbs(q), x), Z(2 ^ MantissaBits))
             s == Scaled(RAbs(q), e)
         IN  Scaled(Z(Sgn(q.n) * RoundDiv(s.n, s.d)), -e)

\* iter().sum() of f64 values: one rounding per addition
RECURSIVE FSum(_)
FSum(s) ==
    IF Len(s) = 0 THEN Z(0) ELSE Fl(RAdd(FSum(SubSeq(s, 1, Len(s) - 1)), s[Len(s)]))

\* Kama::new
FKamaNew(data, period, fast, slow) ==
    IF period = 0 THEN Err("Period must be greater than 0.")
    ELSE IF Len(data) < period THEN Err("Period cannot be greater than input data length.")
    ELSE IF Len(data) <= 1 THEN Err("Data length must be greater than 1.")
    ELSE Ok([kind |-> "Kama", data |-> data, period |-> period,
             fast |-> Fl(RDiv(Z(2), Fl(Z(fast + 1)))),
             slow |-> Fl(RDiv(Z(2), Fl(Z(slow + 1)))),
             index |-> period,
             prev_kama |-> Z(At(data, period - 1)),
             sum_roc |-> FSum([j \in 1..(period - 1) |->
                                  RAbs(Fl(RSub(Z(At(data, j)), Z(At(data, j - 1)))))]),
             trailing_value |-> Z(At(data, 0))])

\* `self.sum_roc -= ..; self.sum_roc += ..;` in calculate_er
FSumRoc(o, start_index) ==
    Fl(RAdd(Fl(RSub(o.sum_roc,
                    RAbs(Fl(RSub(Z(At(o.data, start_index - o.period)),
                                 o.trailing_value))))),
            RAbs(Fl(RSub(Z(At(o.data, start_index)), Z(At(o.data, start_index - 1)))))))

\* the efficiency ratio calculate_er returns, given the updated sum_roc
Fcalculate_er(o, start_index, sum_roc) ==
    IF sum_roc = Z(0) THEN Z(0)
    ELSE Fl(RDiv(RAbs(Fl(RSub(Z(At(o.data, start_index)),
                              Z(At(o.data, start_index - o.period))))),
                 sum_roc))

\* `er * (self.fast - self.slow) + self.slow`, squared
Fcalculate_sc(o, er) ==
    (LET sc == Fl(RAdd(Fl(RMul(er, Fl(RSub(o.fast, o.slow)))), o.slow))
     IN  Fl(RMul(sc, sc)))

FKamaNext(o) ==
    IF o.index >= Len(o.data) THEN None(o)
    ELSE LET sum_roc == FSumRoc(o, o.index)
         IN  KamaEmit(o, sum_roc,
                      Fl(RAdd(o.prev_kama,
                              Fl(RMul(Fcalculate_sc(o, Fcalculate_er(o, o.index, sum_roc)),
                                      Fl(RSub(Z(At(o.data, o.index)), o.prev_kama)))))))

\* ------------------------------------------------------------------------
\* Atr
\* ------------------------------------------------------------------------
\* AtrNew comparing the lengths before looking at the period
AtrNew_MismatchFirst(high, low, close, period) ==
    IF Len(high) # Len(low) \/ Len(low) # Len(close) \/ Len(high) # Len(close)
    THEN Err("All inputs must have the same length.")
    ELSE IF period = 0 THEN Err("Period must be greater than zero.")
    ELSE IF Len(high) < period \/ Len(low) < period \/ Len(close) < period
    THEN Err("Insufficient data for ATR calculation.")
    ELSE Ok([kind |-> "Atr", high |-> high, low |-> low, close |-> close,
             period |-> period, index |-> 0, previous_tr |-> Z(0), len |-> Len(close)])

\* AtrNew comparing only high with low
AtrNew_HighLowOnly(high, low, close, period) ==
    IF period = 0 THEN Err("Period must be greater than zero.")
    ELSE IF Len(high) < period \/ Len(low) < period \/ Len(close) < period
    THEN Err("Insufficient data for ATR calculation.")
    ELSE IF Len(high) # Len(low)
    THEN Err("All inputs must have the same length.")
    ELSE Ok([kind |-> "Atr", high |-> high, low |-> low, close |-> close,
             period |-> period, index |-> 0, previous_tr |-> Z(0), len |-> Len(close)])

AtrNew(high, low, close, period) ==
    IF period = 0 THEN Err("Period must be greater than zero.")
    ELSE IF Len(high) < period \/ Len(low) < period \/ Len(close) < period
    THEN Err("Insufficient data for ATR calculation.")
    ELSE IF Len(high) # Len(low) \/ Len(low) # Len(close) \/ Len(high) # Len(close)
    THEN Err("All inputs must have the same length.")
    ELSE Ok([kind |-> "Atr", high |-> high, low |-> low, close |-> close,
             period |-> period, index |-> 0, previous_tr |-> Z(0), len |-> Len(close)])

\* tr1.max(tr2).max(tr3) at index i
TrueRange(o, i) ==
    LET tr1 == RSub(Z(At(o.high, i)), Z(At(o.low, i)))
        tr2 == RAbs(RSub(Z(At(o.high, i)), Z(At(o.close, i - 1))))
        tr3 == RAbs(RSub(Z(At(o.low, i)), Z(At(o.close, i - 1))))
    IN  RMax(RMax(tr1, tr2), tr3)

\* the reads of TrueRange(o, i) are in bounds
TrInB(o, i) == InB(o.high, i) /\ InB(o.low, i) /\ InB(o.close, i - 1)

AtrNext(o) ==
    IF o.index + o.period >= o.len THEN None(o)
    ELSE IF o.index = 0
    THEN IF \E i \in 1..o.period : ~TrInB(o, i) THEN Panic(o)
         ELSE LET sum == RSum([i \in 1..o.period |-> TrueRange(o, i)])
                  atr == RDiv(sum, Z(o.period))
              IN  Some([o EXCEPT !.previous_tr = atr, !.index = 1], atr)
    ELSE IF ~TrInB(o, o.index + o.period) THEN Panic(o)
    ELSE LET tr == TrueRange(o, o.index + o.period)
             atr == RDiv(RAdd(RMul(o.previous_tr, Z(o.period - 1)), tr), Z(o.period))
         IN  Some([o EXCEPT !.previous_tr = atr, !.index = o.index + 1], atr)

\* the indices i at which next() on o evaluates the true range, in order
AtrReads(o) ==
    IF o.index + o.period >= o.len THEN <<>>
    ELSE IF o.index = 0 THEN [i \in 1..o.period |-> i]
    ELSE <<o.index + o.period>>

\* the same, for all the next() calls calculate() makes on o
RECURSIVE AtrRunReads(_)
AtrRunReads(o) ==
    IF AtrNext(o).ret # "Some" THEN <<>>
    ELSE AtrReads(o) \o AtrRunReads(AtrNext(o).obj)

\* ------------------------------------------------------------------------
\* Square roots: b + c * sqrt(r), r a squarefree positive integer
\* ------------------------------------------------------------------------
Lin(b, c, r) ==
    IF b = NaN \/ c = NaN THEN [b |-> NaN, c |-> Z(0), r |-> 1]
    ELSE IF c.n = 0 /\ c.d # 0 THEN [b |-> b, c |-> Z(0), r |-> 1]
    ELSE IF r = 1 THEN [b |-> RAdd(b, c), c |-> Z(0), r |-> 1]
    ELSE [b |-> b, c |-> c, r |-> r]

LinNaN == Lin(NaN, Z(0), 1)

\* the largest s with s * s dividing m (m > 0)
SquarePart(m) ==
    CHOOSE s \in 1..m : /\ m % (s * s) = 0
                        /\ \A t \in (s + 1)..m : t * t > m \/ m % (t * t) # 0

\* f64::sqrt: NaN for a negative argument
RSqrt(v) ==
    IF v = NaN \/ v.n < 0 THEN LinNaN
    ELSE IF v.d = 0 THEN Lin(v, Z(0), 1)
    ELSE IF v.n = 0 THEN Lin(Z(0), Z(0), 1)
    ELSE LET m == v.n * v.d
             s == SquarePart(m)
         IN  Lin(Z(0), Q(s, v.d), m \div (s * s))

\* a rational plus a multiple of a root
LinAddMul(b, k, root) ==
    IF root.b = NaN THEN LinNaN
    ELSE Lin(RAdd(b, RMul(k, root.b)), RMul(k, root.c), root.r)

\* x - y, both over the same radical
LinSub(x, y) ==
    Lin(RSub(x.b, y.b), RSub(x.c, y.c), IF x.r = 1 THEN y.r ELSE x.r)

\* sign of b + c * sqrt(r) for finite b, c
LinSgn(x) ==
    LET sb == Sgn(x.b.n)
        sc == Sgn(x.c.n)
        b2 == RMul(x.b, x.b)
        c2r == RMul(RMul(x.c, x.c), Z(x.r))
    IN  IF sc = 0 THEN sb
        ELSE IF sb = 0 \/ sb = sc THEN sc
        ELSE IF RLt(c2r, b2) THEN sb
        ELSE IF RLt(b2, c2r) THEN sc
        ELSE 0

\* x / y, both over the same radical
LinDiv(x, y) ==
    IF x.b = NaN \/ y.b = NaN \/ x.b.d = 0 \/ y.b.d = 0 \/ x.c.d = 0 \/ y.c.d = 0
    THEN LinNaN
    ELSE LET r == IF x.r = 1 THEN y.r ELSE x.r
             den == RSub(RMul(y.b, y.b), RMul(RMul(y.c, y.c), Z(r)))
         IN  IF den.n = 0
             THEN Lin([n |-> LinSgn(x), d |-> 0], Z(0), 1)
             ELSE Lin(RDiv(RSub(RMul(x.b, y.b), RMul(RMul(x.c, y.c), Z(r))), den),
                      RDiv(RSub(RMul(x.c, y.b), RMul(x.b, y.c)), den),
                      r)

\* ------------------------------------------------------------------------
\* StdDev
\* ------------------------------------------------------------------------
\* `Sma::new(data, period).unwrap()` and the struct
StdDevBuild(data, period, ddof, sma) ==
    IF sma.st # "ok" THEN NewPanic
    ELSE Ok([kind |-> "StdDev", data |-> data, period |-> period, index |-> 0,
             sma |-> sma.obj, sum_sq |-> Z(0), ddof |-> ddof])

\* StdDevNew refusing a ddof that leaves no degrees of freedom
StdDevNew_ChecksDdof(data, period, ddof) ==
    IF Len(data) < period THEN Err("Insufficient data for the given period")
    ELSE IF period = 0 THEN Err("Period must be set to a number greater than 0")
    ELSE IF ddof >= period THEN Err("ddof must be smaller than the period")
    ELSE StdDevBuild(data, period, ddof, SmaNew(data, period))

StdDevNew(data, period, ddof) ==
    IF Len(data) < period THEN Err("Insufficient data for the given period")
    ELSE IF period = 0 THEN Err("Period must be set to a number greater than 0")
    ELSE StdDevBuild(data, period, ddof, SmaNew(data, period))

\* sum of squares of data[0..period]
SumSqTake(data, period) == RSum([j \in 1..period |-> Z(data[j] * data[j])])

\* RollSq taking the sample at the cursor for the outgoing one
RollSq_OutgoingAtCursor(data, period, index, sum_sq) ==
    IF index = 0 THEN SumSqTake(data, period)
    ELSE IF index + period <= Len(data)
    THEN LET outgoing_index == index
             incoming_index == index + period - 1
         IN  RAdd(sum_sq, RSub(Z(At(data, incoming_index) * At(data, incoming_index)),
                               Z(At(data, outgoing_index) * At(data, outgoing_index))))
    ELSE sum_sq

\* the rolling sum of squares after the update at the top of next()
RollSq(data, period, index, sum_sq) ==
    IF index = 0 THEN SumSqTake(data, period)
    ELSE IF index + period <= Len(data)
    THEN LET outgoing_index == index - 1
             incoming_index == index + period - 1
         IN  RAdd(sum_sq, RSub(Z(At(data, incoming_index) * At(data, incoming_index)),
                               Z(At(data, outgoing_index) * At(data, outgoing_index))))
    ELSE sum_sq

\* sum_sq / (period - ddof) as f64 - mean * mean, where period - ddof is a
\* usize subtraction: with ddof > period it overflows, which panics in a build
\* with overflow checks (build = "debug") and wraps to 2^64 - (ddof - period) in
\* one without (build = "release").  The quotient by the wrapped divisor is
\* below the resolution of mean * mean for the non-negative integer samples
\* of the model, so the variance is then -mean * mean, or 0 for an all-zero
\* window.
StdDevEmit(o1, mean, build) ==
    IF o1.ddof > o1.period /\ build = "debug" THEN Panic(o1)
    ELSE Some([o1 EXCEPT !.index = o1.index + 1],
              RSqrt(RSub(IF o1.ddof > o1.period THEN Z(0)
                         ELSE RDiv(o1.sum_sq, Z(o1.period - o1.ddof)),
                         RMul(mean, mean))))

\* `let mean = self.sma.next()?;` and what follows it
StdDevMean(o, sq, m, build) ==
    IF m.ret # "Some" THEN None([o EXCEPT !.sum_sq = sq, !.sma = m.obj])
    ELSE StdDevEmit([o EXCEPT !.sum_sq = sq, !.sma = m.obj], m.val, build)

StdDevNext(o, build) ==
    IF o.index + o.period > Len(o.data) THEN None(o)
    ELSE StdDevMean(o, RollSq(o.data, o.period, o.index, o.sum_sq), SmaNext(o.sma),
                    build)

\* ------------------------------------------------------------------------
\* MovingAverage selector
\* ------------------------------------------------------------------------
\* next() of the instance wrapped by the selector
MaNext(ma) ==
    CASE ma.kind = "Sma" -> SmaNext(ma)
      [] ma.kind = "Ema" -> EmaNext(ma)
      [] ma.kind = "Wma" -> WmaNext(ma)
      [] ma.kind = "Vwma" -> VwmaNext(ma)
      [] ma.kind = "Dema" -> DemaNext(ma)
      [] ma.kind = "Tema" -> TemaNext(ma)
      [] ma.kind = "Kama" -> KamaNext(ma)

\* ------------------------------------------------------------------------
\* BBands
\* ------------------------------------------------------------------------
\* `Sma::new(data, period)?` and the struct
BBandsBuild(data, period, std_dev, ma_type, sma) ==
    IF sma.st # "ok" THEN Err(sma.err)
    ELSE Ok([kind |-> "BBands", data |-> data, period |-> period,
             std_dev |-> std_dev, ma_type |-> ma_type, index |-> 0,
             rolling_sq_sum |-> Z(0), sma |-> sma.obj])

BBandsNew(data, period, std_dev, ma_type) ==
    IF period = 0 THEN Err("Period must be set to a number greater than 0")
    ELSE IF Len(data) < period THEN Err("Period cannot be greater than input data length.")
    ELSE BBandsBuild(data, period, std_dev, ma_type, SmaNew(data, period))

\* the bands around the middle band, given the rolling standard deviation
\* BBandsEmit without `self.index += 1`
BBandsEmit_KeepsCursor(o2, middle_band, std) ==
    Some(o2,
         [upper |-> LinAddMul(middle_band, o2.std_dev, std),
          middle |-> middle_band,
          lower |-> LinAddMul(middle_band, RNeg(o2.std_dev), std)])

BBandsEmit(o2, middle_band, std) ==
    Some([o2 EXCEPT !.index = o2.index + 1],
         [upper |-> LinAddMul(middle_band, o2.std_dev, std),
          middle |-> middle_band,
          lower |-> LinAddMul(middle_band, RNeg(o2.std_dev), std)])

\* BBandsMiddle taking the variance around the middle band
BBandsMiddle_AroundMiddle(o1, mean, sel) ==
    IF sel.ret # "Some" THEN Panic([o1 EXCEPT !.ma_type = sel.obj])
    ELSE BBandsEmit([o1 EXCEPT !.ma_type = sel.obj], sel.val,
                    RSqrt(RSub(RDiv(o1.rolling_sq_sum, Z(o1.period)),
                               RMul(sel.val, sel.val))))

\* the match on ma_type has yielded sel (an unwrap of None panics)
BBandsMiddle(o1, mean, sel) ==
    IF sel.ret # "Some" THEN Panic([o1 EXCEPT !.ma_type = sel.obj])
    ELSE BBandsEmit([o1 EXCEPT !.ma_type = sel.obj], sel.val,
                    RSqrt(RSub(RDiv(o1.rolling_sq_sum, Z(o1.period)), RMul(mean, mean))))

\* `let mean = self.sma.next().unwrap();` and the match on ma_type: the Sma
\* wrapped by the SMA variant is not advanced, the mean is used instead
BBandsMean(o1, m) ==
    IF m.ret # "Some" THEN Panic(o1)
    ELSE BBandsMiddle(o1, m.val,
                      IF o1.ma_type.kind = "Sma" THEN Some(o1.ma_type, m.val)
                      ELSE MaNext(o1.ma_type))

\* BBandsRolled stepping a copy of the internal Sma
BBandsRolled_SmaNotStored(o, sq, m) ==
    BBandsMean([o EXCEPT !.rolling_sq_sum = sq], m)

\* the internal Sma has been advanced and the rolling sum of squares updated
BBandsRolled(o, sq, m) ==
    BBandsMean([o EXCEPT !.rolling_sq_sum = sq, !.sma = m.obj], m)

BBandsNext(o) ==
    IF o.index + o.period > Len(o.data) THEN None(o)
    ELSE BBandsRolled(o, RollSq(o.data, o.period, o.index, o.rolling_sq_sum),
                      SmaNext(o.sma))

\* ------------------------------------------------------------------------
\* Bbpb
\* ------------------------------------------------------------------------
\* `BBands::new(..).unwrap()` and the struct
BbpbBuild(data, period, bbands) ==
    IF bbands.st # "ok" THEN NewPanic
    ELSE Ok([kind |-> "Bbpb", data |-> data, period |-> period, index |-> 0,
             bbands |-> bbands.obj, len |-> Len(data)])

BbpbNew(data, period, std_dev, ma_type) ==
    IF period = 0 THEN Err("Period must be set to a number greater than 0")
    ELSE IF Len(data) < period THEN Err("Period cannot be greater than input data length.")
    ELSE BbpbBuild(data, period, BBandsNew(data, period, std_dev, ma_type))

\* (price - lowerband) / (upperband - lowerband)
Bandwith(price, upperband, lowerband) ==
    LinDiv(LinSub(price, lowerband), LinSub(upperband, lowerband))

\* `self.bbands.next().unwrap()` has yielded b
BbpbEmit(o, b) ==
    IF b.ret # "Some" THEN Panic([o EXCEPT !.bbands = b.obj])
    ELSE Some([o EXCEPT !.bbands = b.obj, !.index = o.index + 1],
              Bandwith(Lin(Z(At(o.data, o.index + o.period - 1)), Z(0), 1),
                       b.val.upper, b.val.lower))

BbpbNext(o) ==
    IF o.index + o.period > Len(o.data) THEN None(o)
    ELSE BbpbEmit(o, BBandsNext(o.bbands))

\* ------------------------------------------------------------------------
\* size_hint(): (remaining, Some(remaining))
\* ------------------------------------------------------------------------
SmaSizeHint(o) ==
    LET remaining == saturating_sub(o.len, o.period + o.index) + 1
    IN  <<remaining, [none |-> FALSE, val |-> remaining]>>

AtrSizeHint(o) ==
    LET remaining == saturating_sub(o.len, o.period + o.index) + 1
    IN  <<remaining, [none |-> FALSE, val |-> remaining]>>

TemaSizeHint(o) ==
    LET remaining == saturating_sub(o.len, o.index + (3 * o.period - 3)) + 1
    IN  <<remaining, [none |-> FALSE, val |-> remaining]>>

BbpbSizeHint(o) ==
    LET remaining == saturating_sub(o.len, o.period + o.index) + 1
    IN  <<remaining, [none |-> FALSE, val |-> remaining]>>

\* ------------------------------------------------------------------------
\* CircularBuffer
\* ------------------------------------------------------------------------
CircularBufferNew(capacity) ==
    [kind |-> "CircularBuffer", buffer |-> <<>>, capacity |-> capacity]

\* VecDeque::pop_front, the popped value dropped: nothing happens when empty
pop_front(buffer) == IF buffer = <<>> THEN buffer ELSE Tail(buffer)

\* push making room one element before the buffer is full
push_EvictsEarly(b, value) ==
    [b EXCEPT !.buffer =
        Append(IF Len(b.buffer) + 1 = b.capacity THEN pop_front(b.buffer) ELSE b.buffer,
               value)]

push(b, value) ==
    [b EXCEPT !.buffer =
        Append(IF Len(b.buffer) = b.capacity THEN pop_front(b.buffer) ELSE b.buffer,
               value)]

is_full(b) == Len(b.buffer) = b.capacity

\* Option<&T>: the oldest element
front(b) == IF b.buffer = <<>> THEN NoVal ELSE [none |-> FALSE, val |-> Head(b.buffer)]

\* ------------------------------------------------------------------------
\* The caller: constructor arguments
\* ------------------------------------------------------------------------
MaKinds == {"Sma", "Ema", "Wma", "Vwma", "Dema", "Tema", "Kama"}

Kinds == MaKinds \cup {"Atr", "StdDev", "BBands", "Bbpb"}

SeqsUpTo(S, n) == UNION {[1..k -> S] : k \in 0..n}

\* price samples and price series
Prices == {1, 2}

Series == SeqsUpTo(Prices, MaxLen)

\* volume series repeat one of these patterns; a zero volume makes the VWMA
\* quotient 0/0
VolPatterns == {<<1>>, <<0>>, <<1, 2>>, <<2, 0, 1>>}

Cycle(pat, n) == [j \in 1..n |-> pat[((j - 1) % Len(pat)) + 1]]

\* (high, low, close) bars for ATR
Bars == {<<2, 1, 1>>, <<4, 2, 3>>}

\* the input of test_sma_valid
Fixture == [j \in 1..10 |-> j]

Periods == 0..MaxPeriod

\* (fast, slow) of Kama
FastSlow == {<<2, 3>>, <<1, 4>>}

\* the std_dev multiplier of BBands and Bbpb
StdDevMult == 2

\* s without its last k elements
DropLast(s, k) == SubSeq(s, 1, IF Len(s) > k THEN Len(s) - k ELSE 0)

NoArgs ==
    [kind |-> "none", data |-> <<>>, volume |-> <<>>, high |-> <<>>, low |-> <<>>,
     close |-> <<>>, period |-> 0, fast |-> 0, slow |-> 0, ddof |-> 0,
     std_dev |-> Z(0), ma |-> "none", build |-> "debug"]

PlainArgs(k) ==
    {[NoArgs EXCEPT !.kind = k, !.data = d, !.period = p] : d \in Series, p \in Periods}

SmaArgs ==
    PlainArgs("Sma") \cup
    {[NoArgs EXCEPT !.kind = "Sma", !.data = Fixture, !.period = p] : p \in Periods}

VwmaArgs ==
    {[NoArgs EXCEPT !.kind = "Vwma", !.data = d,
                    !.volume = Cycle(v, IF Len(d) + dl < 0 THEN 0 ELSE Len(d) + dl),
                    !.period = p] :
        d \in Series, v \in VolPatterns, dl \in {-1, 0, 1}, p \in Periods}

KamaArgs ==
    {[NoArgs EXCEPT !.kind = "Kama", !.data = d, !.period = p,
                    !.fast = fs[1], !.slow = fs[2]] :
        d \in Series, p \in Periods, fs \in FastSlow}

AtrArgs ==
    {[NoArgs EXCEPT !.kind = "Atr",
                    !.high = DropLast([j \in 1..Len(b) |-> b[j][1]], dr[1]),
                    !.low = DropLast([j \in 1..Len(b) |-> b[j][2]], dr[2]),
                    !.close = DropLast([j \in 1..Len(b) |-> b[j][3]], dr[3]),
                    !.period = p] :
        b \in SeqsUpTo(Bars, MaxLen), dr \in {0, 1} \X {0, 1} \X {0, 1}, p \in Periods}

StdDevArgs ==
    {[NoArgs EXCEPT !.kind = "StdDev", !.data = d, !.period = p, !.ddof = dd,
                    !.build = IF dd > p THEN b ELSE "debug"] :
        d \in Series, p \in Periods, dd \in 0..MaxDdof, b \in {"debug", "release"}}

\* BBands and Bbpb take a selector the caller has built beforehand
\* the volume series behind a VWMA selector: traded bars, or bars without trades
BandVolumes(m) == IF m = "Vwma" THEN {<<1, 2>>, <<0>>} ELSE {<<1, 2>>}

\* (fast, slow) behind a KAMA selector
BandFastSlow(m) == IF m = "Kama" THEN FastSlow ELSE {<<2, 3>>}

BandArgs(k) ==
    UNION {{[NoArgs EXCEPT !.kind = k, !.data = d, !.period = p,
                           !.std_dev = Z(StdDevMult),
                           !.ma = m, !.fast = fs[1], !.slow = fs[2],
                           !.volume = Cycle(v, Len(d))] :
               d \in Series, p \in Periods, fs \in BandFastSlow(m), v \in BandVolumes(m)} :
           m \in MaKinds}

ArgSet ==
    SmaArgs \cup PlainArgs("Ema") \cup PlainArgs("Wma") \cup PlainArgs("Dema")
    \cup PlainArgs("Tema") \cup VwmaArgs \cup KamaArgs \cup AtrArgs \cup StdDevArgs
    \cup BandArgs("BBands") \cup BandArgs("Bbpb")

\* the constructor of the moving average of kind k over the caller's arguments
MaNew(k, a) ==
    CASE k = "Sma" -> SmaNew(a.data, a.period)
      [] k = "Ema" -> EmaNew(a.data, a.period)
      [] k = "Wma" -> WmaNew(a.data, a.period)
      [] k = "Vwma" -> VwmaNew(a.data, a.volume, a.period)
      [] k = "Dema" -> DemaNew(a.data, a.period)
      [] k = "Tema" -> TemaNew(a.data, a.period)
      [] k = "Kama" -> KamaNew(a.data, a.period, a.fast, a.slow)

\* what a caller passes when the selector cannot be built over its own input
\* (Sma::new(&[0.0], 1) in the tests of BBands)
FallbackArgs(k) ==
    [NoArgs EXCEPT !.data = IF k = "Kama" THEN <<0, 0>> ELSE <<0>>,
                   !.volume = <<1>>, !.period = 1, !.fast = 2, !.slow = 3]

\* the selector is built over the same data and period as the band indicator
SelSame(a) == MaNew(a.ma, a).st = "ok"

PickSelector(own, fallback) == IF own.st = "ok" THEN own.obj ELSE fallback.obj

Selector(a) == PickSelector(MaNew(a.ma, a), MaNew(a.ma, FallbackArgs(a.ma)))

\* the constructor call the arguments describe
NewOf(a) ==
    CASE a.kind \in MaKinds -> MaNew(a.kind, a)
      [] a.kind = "Atr" -> AtrNew(a.high, a.low, a.close, a.period)
      [] a.kind = "StdDev" -> StdDevNew(a.data, a.period, a.ddof)
      [] a.kind = "BBands" -> BBandsNew(a.data, a.period, a.std_dev, Selector(a))
      [] a.kind = "Bbpb" -> BbpbNew(a.data, a.period, a.std_dev, Selector(a))

\* next() of an instance
NextOf(o, build) ==
    CASE o.kind \in MaKinds -> MaNext(o)
      [] o.kind = "Atr" -> AtrNext(o)
      [] o.kind = "StdDev" -> StdDevNext(o, build)
      [] o.kind = "BBands" -> BBandsNext(o)
      [] o.kind = "Bbpb" -> BbpbNext(o)

\* ------------------------------------------------------------------------
\* calculate(): collect / extend over the iterator
\* ------------------------------------------------------------------------
\* repeated next() until it stops yielding: the loop of collect / extend /
\* for_each, with the values yielded so far in acc
RECURSIVE Drain(_, _, _)
DrainStep(r, build, acc) ==
    IF r.ret = "Some" THEN Drain(r.obj, build, Append(acc, r.val))
    ELSE [obj |-> r.obj, ret |-> IF r.ret = "Panic" THEN "Panic" ELSE "Ok",
          vals |-> acc]

Drain(o, build, acc) == DrainStep(NextOf(o, build), build, acc)

\* Indicator::calculate of the single-output indicators
Calculate(o, build) == Drain(o, build, <<>>)

\* BBands::calculate: three vectors
Unzip(r) ==
    [obj |-> r.obj, ret |-> r.ret,
     vals |-> [upper |-> [j \in 1..Len(r.vals) |-> r.vals[j].upper],
               middle |-> [j \in 1..Len(r.vals) |-> r.vals[j].middle],
               lower |-> [j \in 1..Len(r.vals) |-> r.vals[j].lower]]]

BBandsCalculate(o) == Unzip(Drain(o, "debug", <<>>))

\* ------------------------------------------------------------------------
\* State
\* ------------------------------------------------------------------------
VARIABLES
    args,       \* the arguments of the constructor call
    phase,      \* "call", "live", "failed" (constructor returned Err), "panicked"
    err,        \* the message of the constructor's Err
    obj,        \* the instance
    out,        \* the values next() has yielded so far
    last,       \* the result of the latest next(): "Some", "None", "Panic"
    op,         \* the latest operation: "new", "next", "calculate"
    prev,       \* the result of the next() before the latest
    calcs,      \* calls of calculate(), counted up to the second
    calcRet,    \* what the latest calculate() returned
    ring,       \* a CircularBuffer
    pushed      \* the values pushed onto it so far, oldest first

vars == <<args, phase, err, obj, out, last, op, prev, calcs, calcRet, ring, pushed>>

NoCalc == [ret |-> "none", vals |-> <<>>]

Init ==
    /\ args \in ArgSet
    /\ phase = "call"
    /\ err = ""
    /\ obj = NoObj
    /\ out = <<>>
    /\ last = "none"
    /\ op = "none"
    /\ prev = "none"
    /\ calcs = 0
    /\ calcRet = NoCalc
    /\ ring = NoObj
    /\ pushed = <<>>

\* ------------------------------------------------------------------------
\* Constructor calls
\* ------------------------------------------------------------------------
Construct(k, r) ==
    /\ phase = "call"
    /\ args.kind = k
    /\ obj' = r.obj
    /\ err' = r.err
    /\ phase' = CASE r.st = "ok" -> "live"
                  [] r.st = "err" -> "failed"
                  [] r.st = "panic" -> "panicked"
    /\ op' = "new"
    /\ UNCHANGED <<args, out, last, prev, calcs, calcRet, ring, pushed>>

NewSma == Construct("Sma", SmaNew(args.data, args.period))

NewEma == Construct("Ema", EmaNew(args.data, args.period))

NewWma == Construct("Wma", WmaNew(args.data, args.period))

NewVwma == Construct("Vwma", VwmaNew(args.data, args.volume, args.period))

NewDema == Construct("Dema", DemaNew(args.data, args.period))

NewTema == Construct("Tema", TemaNew(args.data, args.period))

NewKama == Construct("Kama", KamaNew(args.data, args.period, args.fast, args.slow))

NewAtr == Construct("Atr", AtrNew(args.high, args.low, args.close, args.period))

NewStdDev == Construct("StdDev", StdDevNew(args.data, args.period, args.ddof))

NewBBands ==
    Construct("BBands", BBandsNew(args.data, args.period, args.std_dev, Selector(args)))

NewBbpb ==
    Construct("Bbpb", BbpbNew(args.data, args.period, args.std_dev, Selector(args)))

\* ------------------------------------------------------------------------
\* next() calls
\* ------------------------------------------------------------------------
Step(k, r) ==
    /\ phase = "live"
    /\ obj.kind = k
    /\ obj' = r.obj
    /\ last' = r.ret
    /\ out' = IF r.ret = "Some" THEN Append(out, r.val) ELSE out
    /\ phase' = IF r.ret = "Panic" THEN "panicked" ELSE "live"
    /\ prev' = last
    /\ op' = "next"
    /\ UNCHANGED <<args, err, calcs, calcRet, ring, pushed>>

NextSma == Step("Sma", SmaNext(obj))

NextEma == Step("Ema", EmaNext(obj))

NextWma == Step("Wma", WmaNext(obj))

NextVwma == Step("Vwma", VwmaNext(obj))

NextDema == Step("Dema", DemaNext(obj))

NextTema == Step("Tema", TemaNext(obj))

NextKama == Step("Kama", KamaNext(obj))

NextAtr == Step("Atr", AtrNext(obj))

NextStdDev == Step("StdDev", StdDevNext(obj, args.build))

NextBBands == Step("BBands", BBandsNext(obj))

NextBbpb == Step("Bbpb", BbpbNext(obj))

\* ------------------------------------------------------------------------
\* calculate() calls
\* ------------------------------------------------------------------------
Collect(r) ==
    /\ phase = "live"
    /\ calcs < 2
    /\ obj' = r.obj
    /\ calcRet' = [ret |-> r.ret, vals |-> r.vals]
    /\ calcs' = calcs + 1
    /\ phase' = IF r.ret = "Panic" THEN "panicked" ELSE "live"
    /\ op' = "calculate"
    /\ UNCHANGED <<args, err, out, last, prev, ring, pushed>>

CalculateCall ==
    /\ obj.kind # "BBands"
    /\ Collect(Calculate(obj, args.build))

BBandsCalculateCall ==
    /\ obj.kind = "BBands"
    /\ Collect(BBandsCalculate(obj))

Next ==
    \/ NewSma \/ NewEma \/ NewWma \/ NewVwma \/ NewDema \/ NewTema \/ NewKama
    \/ NewAtr \/ NewStdDev \/ NewBBands \/ NewBbpb
    \/ NextSma \/ NextEma \/ NextWma \/ NextVwma \/ NextDema \/ NextTema \/ NextKama
    \/ NextAtr \/ NextStdDev \/ NextBBands \/ NextBbpb
    \/ CalculateCall \/ BBandsCalculateCall

Spec == Init /\ [][Next]_vars

\* ------------------------------------------------------------------------
\* Kama on its own, in floating point: prices far enough apart for their
\* differences to round
\* ------------------------------------------------------------------------
FloatInit ==
    /\ args \in {[NoArgs EXCEPT !.kind = "Kama", !.data = d, !.period = p,
                                !.fast = fs[1], !.slow = fs[2]] :
                    d \in SeqsUpTo({1, 3, 12}, MaxLen) \ SeqsUpTo({1, 3, 12}, 1),
                    p \in 1..MaxPeriod, fs \in FastSlow}
    /\ phase = "call"
    /\ err = ""
    /\ obj = NoObj
    /\ out = <<>>
    /\ last = "none"
    /\ op = "none"
    /\ prev = "none"
    /\ calcs = 0
    /\ calcRet = NoCalc
    /\ ring = NoObj
    /\ pushed = <<>>

FloatNext ==
    \/ Construct("Kama", FKamaNew(args.data, args.period, args.fast, args.slow))
    \/ Step("Kama", FKamaNext(obj))

FloatSpec == FloatInit /\ [][FloatNext]_vars

\* ------------------------------------------------------------------------
\* The ring buffer on its own: a buffer of some capacity, then pushes
\* ------------------------------------------------------------------------
BufInit ==
    /\ ring \in {CircularBufferNew(c) : c \in 0..MaxCapacity}
    /\ pushed = <<>>
    /\ args = NoArgs
    /\ phase = "call"
    /\ err = ""
    /\ obj = NoObj
    /\ out = <<>>
    /\ last = "none"
    /\ op = "none"
    /\ prev = "none"
    /\ calcs = 0
    /\ calcRet = NoCalc

Push(value) ==
    /\ Len(pushed) < MaxPushes
    /\ ring' = push(ring, value)
    /\ pushed' = Append(pushed, value)
    /\ UNCHANGED <<args, phase, err, obj, out, last, op, prev, calcs, calcRet>>

BufNext == \E value \in Prices : Push(value)

BufSpec == BufInit /\ [][BufNext]_vars

\* ------------------------------------------------------------------------
\* The error taxonomy: the messages of the constructors, by class
\* ------------------------------------------------------------------------
ZeroPeriodMsgs ==
    {"Period must be greater than zero.", "Period must be greater than 0",
     "Period must be greater than 0.", "Period must be set to a number greater than 0"}

InsufficientDataMsgs ==
    {"Insufficient data for SMA calculation.",
     "Period cannot be greater than input data length",
     "Period cannot be greater than input data length.",
     "Data length must be greater than 1.",
     "Insufficient data for ATR calculation.",
     "Insufficient data for the given period"}

LengthMismatchMsgs ==
    {"Data and volume must have the same length.",
     "All inputs must have the same length."}

\* ------------------------------------------------------------------------
\* Vocabulary of the properties
\* ------------------------------------------------------------------------
Called == phase # "call"

BandKinds == {"BBands", "Bbpb"}

\* the input series of the call
SeriesOf(a) ==
    CASE a.kind = "Atr" -> {a.high, a.low, a.close}
      [] a.kind = "Vwma" -> {a.data, a.volume}
      [] OTHER -> {a.data}

\* the length the constructor calls data.len()
InputLen(a) == IF a.kind = "Atr" THEN Len(a.close) ELSE Len(a.data)

EqualLengths(a) == \A x \in SeriesOf(a), y \in SeriesOf(a) : Len(x) = Len(y)

\* period > 0, data.len() >= period, equal-length parallel series, and for a
\* band indicator a selector built over the same data and period
ValidInput(a) ==
    /\ a.period > 0
    /\ \A x \in SeriesOf(a) : Len(x) >= a.period
    /\ EqualLengths(a)
    /\ a.kind \in BandKinds => SelSame(a)

\* the caller keeps period > ddof, as StdDev asks
DdofKept(a) == a.kind = "StdDev" => a.ddof < a.period

\* calculate() was the first call on the instance
FreshCalculate == calcs = 1 /\ last = "none"

\* the mean of data[i..i+period], computed directly
DirectMean(data, i, period) == RDiv(RSum(Slice(data, i, i + period)), Z(period))

\* everything a fresh instance over the call's arguments yields
FreshRun == Drain(NewOf(args).obj, args.build, <<>>)

\* the values the latest calculate() returned, as one sequence of steps
CalcVals ==
    IF args.kind = "BBands" /\ calcs > 0
    THEN [j \in 1..Len(calcRet.vals.middle) |->
             [upper |-> calcRet.vals.upper[j], middle |-> calcRet.vals.middle[j],
              lower |-> calcRet.vals.lower[j]]]
    ELSE calcRet.vals

\* ------------------------------------------------------------------------
\* C1 (as claimed): for every valid input, calculate() on a fresh Sma, Ema,
\* Wma, Vwma, StdDev or Bbpb returns exactly data.len() - period + 1 values.
\* The code panics instead for a Bbpb whose selector is a DEMA or TEMA with
\* period > 1, or a KAMA (see C2).
\* ------------------------------------------------------------------------
C1_LengthLaw ==
    (/\ args.kind \in {"Sma", "Ema", "Wma", "Vwma", "StdDev", "Bbpb"}
     /\ ValidInput(args) /\ DdofKept(args)
     /\ FreshCalculate)
    => /\ calcRet.ret = "Ok"
       /\ Len(calcRet.vals) = InputLen(args) - args.period + 1

\* ------------------------------------------------------------------------
\* C2 (as claimed): after a successful construction, with the selector of a
\* band indicator built over the same data and period, no call of next()
\* panics.  The code unwraps the exhausted selector in BBands::next.
\* ------------------------------------------------------------------------
C2_NextNeverPanics ==
    (Called /\ ValidInput(args) /\ DdofKept(args)) => last # "Panic"

\* ------------------------------------------------------------------------
\* C3 (as claimed): BBands::calculate over a selector of any of the seven
\* variants, built over the same data and period, returns three vectors of
\* data.len() - period + 1 elements each.
\* ------------------------------------------------------------------------
C3_BandsLength ==
    (args.kind = "BBands" /\ ValidInput(args) /\ FreshCalculate)
    => /\ calcRet.ret = "Ok"
       /\ \A v \in {calcRet.vals.upper, calcRet.vals.middle, calcRet.vals.lower} :
              Len(v) = Len(args.data) - args.period + 1

\* ------------------------------------------------------------------------
\* C4: exhaustion is permanent.  Once next() has returned None, a later
\* next() on the same instance returns None again and changes neither the
\* instance (rolling state, cursor, sub-indicators) nor what was yielded.
\* ------------------------------------------------------------------------
C4_ExhaustionPermanent ==
    [][(phase = "live" /\ last = "None" /\ op' = "next")
       => (last' = "None" /\ obj' = obj /\ out' = out /\ phase' = "live")]_vars

\* a second next() after the one that returned None
C4_Witness ==
    phase = "live" /\ op = "next" /\ prev = "None" /\ last = "None" /\ Len(out) > 0

\* ------------------------------------------------------------------------
\* C5: every constructor called with period == 0 returns the zero-period
\* error and no instance, whatever the data (empty, mismatched lengths).
\* ------------------------------------------------------------------------
C5_ZeroPeriod ==
    (Called /\ args.period = 0)
    => (phase = "failed" /\ err \in ZeroPeriodMsgs /\ obj = NoObj)

\* Atr::new with period 0 over series of differing lengths, some empty
C5_Witness ==
    /\ phase = "failed" /\ args.kind = "Atr" /\ args.period = 0
    /\ ~EqualLengths(args) /\ Len(args.high) = 0
    /\ err \in ZeroPeriodMsgs

\* ------------------------------------------------------------------------
\* C6: every constructor called with period > 0 and a series shorter than
\* the period returns the insufficient-data error; an empty input always
\* yields an error, never a panic and never an instance.
\* ------------------------------------------------------------------------
ShortInput(a) ==
    IF a.kind = "Atr" THEN \E x \in SeriesOf(a) : Len(x) < a.period
    ELSE Len(a.data) < a.period

C6_InsufficientData ==
    /\ (Called /\ args.period > 0 /\ ShortInput(args))
       => (phase = "failed" /\ err \in InsufficientDataMsgs /\ obj = NoObj)
    /\ (Called /\ InputLen(args) = 0) => (phase = "failed" /\ obj = NoObj)

\* Vwma::new over a price series shorter than the period, the volume series
\* of yet another length
C6_Witness ==
    /\ phase = "failed" /\ args.kind = "Vwma" /\ args.period > 0
    /\ Len(args.data) < args.period /\ Len(args.data) > 0
    /\ Len(args.volume) # Len(args.data)
    /\ err \in InsufficientDataMsgs

\* ------------------------------------------------------------------------
\* C7 (as claimed): Dema::new fails with the insufficient-data error when
\* data.len() < 2*period-1, Tema::new when data.len() < 3*period-2, Atr::new
\* when data.len() <= period, so that every constructed Dema, Tema or Atr
\* yields at least one value.  The constructors only require
\* data.len() >= period.
\* ------------------------------------------------------------------------
BelowMinimum(a) ==
    \/ a.kind = "Dema" /\ Len(a.data) < 2 * a.period - 1
    \/ a.kind = "Tema" /\ Len(a.data) < 3 * a.period - 2
    \/ a.kind = "Atr" /\ EqualLengths(a) /\ Len(a.close) <= a.period

C7_StrongerMinimums ==
    /\ (Called /\ args.period > 0 /\ BelowMinimum(args))
       => (phase = "failed" /\ err \in InsufficientDataMsgs)
    /\ (phase = "live" /\ args.kind \in {"Dema", "Tema", "Atr"} /\ last = "None")
       => Len(out) > 0

\* ------------------------------------------------------------------------
\* C8 (as claimed): for period > 0, Vwma::new and Atr::new return the
\* length-mismatch error whenever the parallel series differ in length.
\* ------------------------------------------------------------------------
C8_MismatchWhenever ==
    (Called /\ args.kind \in {"Vwma", "Atr"} /\ args.period > 0 /\ ~EqualLengths(args))
    => (phase = "failed" /\ err \in LengthMismatchMsgs)

\* the length check is reached: the series the constructor compares with the
\* period are long enough
ReachesLengthCheck(a) ==
    IF a.kind = "Atr" THEN \A x \in SeriesOf(a) : Len(x) >= a.period
    ELSE Len(a.data) >= a.period

\* ------------------------------------------------------------------------
\* C8 (amended): for period > 0, Vwma::new and Atr::new return an error and
\* no instance whenever the parallel series differ in length: the
\* length-mismatch error when the series compared with the period (price for
\* Vwma; high, low and close for Atr) have at least period elements, the
\* insufficient-data error otherwise.
\* ------------------------------------------------------------------------
C8_MismatchRejected ==
    (Called /\ args.kind \in {"Vwma", "Atr"} /\ args.period > 0 /\ ~EqualLengths(args))
    => /\ phase = "failed" /\ obj = NoObj
       /\ ReachesLengthCheck(args) => err \in LengthMismatchMsgs
       /\ ~ReachesLengthCheck(args) => err \in InsufficientDataMsgs

\* Atr::new over high and low of one length and a shorter close, all of
\* them at least as long as the period
C8_Witness ==
    /\ phase = "failed" /\ args.kind = "Atr" /\ args.period > 0
    /\ Len(args.high) = Len(args.low) /\ Len(args.close) < Len(args.high)
    /\ Len(args.close) >= args.period
    /\ err \in LengthMismatchMsgs

\* ------------------------------------------------------------------------
\* C9 (as claimed): calculate() after k calls of next() returns Ok with
\* exactly what a fresh instance yields from position k on; it never fails on
\* a constructed instance; a second calculate() returns Ok with nothing.
\* The code panics in calculate() of a BBands or Bbpb whose selector runs out
\* first (see C2).
\* ------------------------------------------------------------------------
C9_CalculateDrains ==
    (phase # "call" /\ ValidInput(args) /\ DdofKept(args) /\ op = "calculate")
    => /\ calcRet.ret = "Ok"
       /\ calcs = 1 => out \o CalcVals = FreshRun.vals
       /\ calcs = 2 => CalcVals = <<>>

\* ------------------------------------------------------------------------
\* C10: every value Sma yields, through next() or calculate(), is the mean
\* of its window data[i..i+period] computed directly, and while a window is
\* left the rolling sum is the direct sum of the window at the cursor; Sma
\* over 1..10 with period 3 yields 2, 3, ..., 9.
\* ------------------------------------------------------------------------
C10_SmaRolling ==
    (args.kind = "Sma" /\ phase = "live")
    => /\ \A i \in 1..Len(out) : out[i] = DirectMean(args.data, i - 1, args.period)
       /\ \A j \in 1..Len(calcRet.vals) :
              calcRet.vals[j] = DirectMean(args.data, Len(out) + j - 1, args.period)
       /\ obj.index + obj.period <= Len(args.data)
              => obj.sum = RSum(Slice(args.data, obj.index, obj.index + obj.period))

\* test_sma_valid, stepped to the end
C10_Witness ==
    /\ args.kind = "Sma" /\ args.data = Fixture /\ args.period = 3
    /\ out = [j \in 1..8 |-> Z(j + 1)]
    /\ last = "None"

\* ------------------------------------------------------------------------
\* More vocabulary
\* ------------------------------------------------------------------------
\* everything yielded so far, by next() and by the latest calculate(), in
\* order: the values of the output positions 0, 1, 2, ...
Emitted == out \o CalcVals

\* the instance has been run to its end with every value on record
RunComplete == phase = "live" /\ (calcs = 1 \/ (calcs = 0 /\ last = "None"))

\* ------------------------------------------------------------------------
\* C11: EMA recurrence.  The first value Ema yields is the mean of
\* data[0..period]; the value of every later position i is
\* prev + 2/(period+1) * (data[i+period-1] - prev), prev the value of
\* position i-1; the cursor counts the values yielded, so the samples from
\* index period on are consumed once each, in order, up to the last.
\* ------------------------------------------------------------------------
C11_EmaRecurrence ==
    (args.kind = "Ema" /\ phase = "live")
    => /\ Len(Emitted) >= 1 => Emitted[1] = DirectMean(args.data, 0, args.period)
       /\ \A i \in 2..Len(Emitted) :
              Emitted[i] =
                  RAdd(Emitted[i - 1],
                       RMul(Q(2, args.period + 1),
                            RSub(Z(At(args.data, (i - 1) + args.period - 1)),
                                 Emitted[i - 1])))
       /\ calcs <= 1 => obj.index = Len(Emitted)
       /\ RunComplete => Len(Emitted) = Len(args.data) - args.period + 1

\* an Ema of period 2 over four samples that are not all equal, run to its end
C11_Witness ==
    /\ args.kind = "Ema" /\ args.period = 2 /\ Len(args.data) = 4
    /\ args.data[3] # args.data[4]
    /\ last = "None" /\ Len(out) = 3
    /\ out[3] # out[2]

\* the series as f64 values
Reals(data) == [j \in 1..Len(data) |-> Z(data[j])]

\* the i-th output (i = 1, 2, ...) of an EMA pass of the given period over
\* the values xs: the mean of the first period values, then the recurrence
RECURSIVE EmaPass(_, _, _)
EmaPass(xs, period, i) ==
    IF i = 1 THEN RDiv(RSum(SubSeq(xs, 1, period)), Z(period))
    ELSE LET before == EmaPass(xs, period, i - 1)
         IN  RAdd(before, RMul(Q(2, period + 1), RSub(xs[i + period - 1], before)))

\* all outputs of the pass
EmaOf(xs, period) ==
    [i \in 1..(IF Len(xs) >= period THEN Len(xs) - period + 1 ELSE 0) |->
        EmaPass(xs, period, i)]

\* ------------------------------------------------------------------------
\* C12 (as claimed): with E1 = Ema(data, period) and E2 = Ema(E1, period),
\* the k-th value Dema yields is 2*E1[k+period-1] - E2[k], and a full run
\* yields data.len() - (2*period-2) values.  The values are as claimed; the
\* count is not for the instances Dema::new builds over fewer than
\* 2*period-2 samples (see C7), which yield nothing.
\* ------------------------------------------------------------------------
C12_DemaValues ==
    \A k \in 1..Len(Emitted) :
        Emitted[k] =
            RSub(RMul(Z(2), EmaOf(Reals(args.data), args.period)[k + args.period - 1]),
                 EmaOf(EmaOf(Reals(args.data), args.period), args.period)[k])

C12_DemaComposition ==
    (args.kind = "Dema" /\ phase = "live")
    => /\ C12_DemaValues
       /\ RunComplete => Len(Emitted) = Len(args.data) - (2 * args.period - 2)

\* ------------------------------------------------------------------------
\* C13 (as claimed): with E1 = Ema(data, period), E2 = Ema(E1, period) and
\* E3 = Ema(E2, period), the k-th value Tema yields is
\* 3*E1[k+2*period-2] - 3*E2[k+period-1] + E3[k], and a full run yields
\* data.len() - (3*period-3) values.  The values are as claimed; the count is
\* not for the instances Tema::new builds over fewer than 3*period-3 samples
\* (see C7), which yield nothing.
\* ------------------------------------------------------------------------
C13_TemaValues ==
    \A k \in 1..Len(Emitted) :
        Emitted[k] =
            RAdd(RSub(RMul(Z(3), EmaOf(Reals(args.data), args.period)[k + 2 * args.period - 2]),
                      RMul(Z(3), EmaOf(EmaOf(Reals(args.data), args.period),
                                       args.period)[k + args.period - 1])),
                 EmaOf(EmaOf(EmaOf(Reals(args.data), args.period), args.period),
                       args.period)[k])

C13_TemaComposition ==
    (args.kind = "Tema" /\ phase = "live")
    => /\ C13_TemaValues
       /\ RunComplete => Len(Emitted) = Len(args.data) - (3 * args.period - 3)

\* TR(i) = max(high[i]-low[i], |high[i]-close[i-1]|, |low[i]-close[i-1]|)
TR(a, i) ==
    RMax(RMax(Z(At(a.high, i) - At(a.low, i)),
              Z(Abs(At(a.high, i) - At(a.close, i - 1)))),
         Z(Abs(At(a.low, i) - At(a.close, i - 1))))

\* the first value is the mean of TR(1..=period), the j-th later one is
\* (prev*(period-1) + TR(period+j)) / period
C14_AtrValues ==
    /\ Len(Emitted) >= 1
           => Emitted[1] = RDiv(RSum([i \in 1..args.period |-> TR(args, i)]), Z(args.period))
    /\ \A j \in 1..(Len(Emitted) - 1) :
           Emitted[j + 1] =
               RDiv(RAdd(RMul(Emitted[j], Z(args.period - 1)), TR(args, args.period + j)),
                    Z(args.period))

\* ------------------------------------------------------------------------
\* C14 (as claimed): Atr yields the mean of TR(1..=period) and then the
\* Wilder recurrence on TR(period+j); calculate() returns len - period
\* values, evaluating the true range at each index 1..len-1 exactly once and
\* at no index from len on.  Values and count are as claimed; the reads are
\* not for the instance Atr::new builds over exactly period bars (see C7),
\* which reads nothing.
\* ------------------------------------------------------------------------
C14_AtrWilder ==
    (args.kind = "Atr" /\ phase = "live")
    => /\ C14_AtrValues
       /\ RunComplete => Len(Emitted) = Len(args.close) - args.period
       /\ FreshCalculate
              => AtrRunReads(NewOf(args).obj) = [i \in 1..(Len(args.close) - 1) |-> i]

\* all prices of the series are the same
IsConstant(data) == \A i \in 1..Len(data), j \in 1..Len(data) : data[i] = data[j]

\* ------------------------------------------------------------------------
\* C15: KAMA constancy.  Over a constant series, for every period, fast and
\* slow the constructor accepts, every value Kama yields is the constant:
\* sum_roc stays 0 and the efficiency ratio is taken as 0.
\* ------------------------------------------------------------------------
C15_KamaConstancy ==
    (args.kind = "Kama" /\ phase = "live" /\ IsConstant(args.data))
    => /\ \A k \in 1..Len(Emitted) : Emitted[k] = Z(args.data[1])
       /\ obj.sum_roc = Z(0)
       /\ obj.prev_kama = Z(args.data[1])

\* a Kama of period 2 over four equal prices, run to its end
C15_Witness ==
    /\ args.kind = "Kama" /\ IsConstant(args.data) /\ Len(args.data) = 4
    /\ args.period = 2 /\ args.fast = 1
    /\ last = "None" /\ Len(out) = 2

\* a band value as b + c * sqrt(r)
AsLin(x) == IF "r" \in DOMAIN x THEN x ELSE Lin(x, Z(0), 1)

\* x >= y on f64: false when either is NaN
Geq(x, y) ==
    /\ AsLin(x).b # NaN /\ AsLin(y).b # NaN
    /\ LinSgn(LinSub(AsLin(x), AsLin(y))) >= 0

\* ------------------------------------------------------------------------
\* C16 (as claimed): for every step BBands yields, with std_dev >= 0 and
\* any selector variant, upper >= middle >= lower.  The code yields NaN
\* bands when the selector yields NaN (a VWMA over bars without volume), and
\* no comparison holds of a NaN.
\* ------------------------------------------------------------------------
C16_NonCrossing ==
    (args.kind = "BBands" /\ ValidInput(args) /\ phase # "call")
    => \A k \in 1..Len(Emitted) :
           /\ Geq(Emitted[k].upper, Emitted[k].middle)
           /\ Geq(Emitted[k].middle, Emitted[k].lower)

\* the steps a fresh BBands over the same data, period, std_dev and selector
\* yields (up to a panic, if it panics)
BandsRun ==
    Drain(BBandsNew(args.data, args.period, args.std_dev, Selector(args)).obj,
          "debug", <<>>).vals

\* (data[i+period-1] - lower_i) / (upper_i - lower_i), i = k - 1
C17_BbpbValues ==
    \A k \in 1..Len(Emitted) :
        /\ k <= Len(BandsRun)
        /\ Emitted[k] =
               LinDiv(LinSub(Lin(Z(At(args.data, (k - 1) + args.period - 1)), Z(0), 1),
                             BandsRun[k].lower),
                      LinSub(BandsRun[k].upper, BandsRun[k].lower))

\* ------------------------------------------------------------------------
\* C17 (as claimed): the value Bbpb yields at position i is
\* (data[i+period-1] - lower_i) / (upper_i - lower_i) over the i-th step of a
\* BBands with the same arguments; the output has data.len() - period + 1
\* values; Bbpb::new does not panic on inputs that pass its period and
\* length checks.  Values and constructor are as claimed; the output is not
\* produced when the selector runs out first and BBands::next panics (see
\* C2).
\* ------------------------------------------------------------------------
C17_BbpbFormula ==
    /\ (args.kind = "Bbpb" /\ args.period > 0 /\ Len(args.data) >= args.period
            /\ phase # "call")
       => (obj.kind = "Bbpb" /\ err = "")
    /\ (args.kind = "Bbpb" /\ ValidInput(args) /\ phase # "call")
       => /\ C17_BbpbValues
          /\ op = "calculate" => calcRet.ret = "Ok"
          /\ RunComplete => Len(Emitted) = Len(args.data) - args.period + 1

\* ------------------------------------------------------------------------
\* C18 (as claimed): for every capacity c >= 0 and after any pushes the
\* buffer holds at most c elements, and a push onto a full buffer removes
\* exactly the oldest element and appends the new one.  A buffer of capacity
\* 0 grows with every push.
\* ------------------------------------------------------------------------
C18_Bounded ==
    [][ /\ Len(ring'.buffer) <= ring'.capacity
        /\ Len(ring.buffer) = ring.capacity
               => /\ Len(ring'.buffer) = Len(ring.buffer)
                  /\ \A j \in 1..(Len(ring.buffer) - 1) : ring'.buffer[j] = ring.buffer[j + 1]
                  /\ ring'.buffer[Len(ring'.buffer)] = pushed'[Len(pushed')] ]_vars

\* sum over j = 1..period of j * data[i+j-1], computed directly
DirectWeightedSum(data, i, period) ==
    RSum([j \in 1..period |-> Z(j * At(data, i + j - 1))])

\* ------------------------------------------------------------------------
\* C19: WMA telescoping identity.  The value Wma yields at every position i
\* is the direct weighted average of its window,
\* (sum over j = 1..period of j * data[i+j-1]) / (period*(period+1)/2), and
\* after each update period_sum is the direct weighted sum and period_sub the
\* plain sum of the window just yielded.
\* ------------------------------------------------------------------------
C19_WmaTelescoping ==
    (args.kind = "Wma" /\ phase = "live")
    => /\ \A k \in 1..Len(Emitted) :
              Emitted[k] = RDiv(DirectWeightedSum(args.data, k - 1, args.period),
                                Q(args.period * (args.period + 1), 2))
       /\ obj.index >= 1
              => /\ obj.period_sum = DirectWeightedSum(args.data, obj.index - 1, args.period)
                 /\ obj.period_sub =
                        RSum(Slice(args.data, obj.index - 1, obj.index - 1 + args.period))
       /\ RunComplete => Len(Emitted) = Len(args.data) - args.period + 1

\* a Wma of period 2 over four prices that change, run to its end
C19_Witness ==
    /\ args.kind = "Wma" /\ args.period = 2 /\ args.data = <<1, 2, 2, 1>>
    /\ last = "None" /\ Len(out) = 3
    /\ obj.index = 3

\* sum of data[j] * volume[j] for j in i..i+period, computed directly
DirectPriceVolume(data, volume, i, period) ==
    RSum([j \in 1..period |-> Z(At(data, i + j - 1) * At(volume, i + j - 1))])

\* sum of volume[j] for j in i..i+period, computed directly
DirectVolume(volume, i, period) == RSum(Slice(volume, i, i + period))

\* ------------------------------------------------------------------------
\* C20: VWMA rolling-update equivalence.  At every output position i the
\* rolling sums are the direct sums of data[j]*volume[j] and of volume[j]
\* over j in i..i+period, price and volume paired by index, so the value
\* yielded is the directly recomputed volume-weighted mean of the window
\* (NaN when the window has no volume, in both computations).
\* ------------------------------------------------------------------------
C20_VwmaRolling ==
    (args.kind = "Vwma" /\ phase = "live")
    => /\ \A k \in 1..Len(Emitted) :
              Emitted[k] = RDiv(DirectPriceVolume(args.data, args.volume, k - 1, args.period),
                                DirectVolume(args.volume, k - 1, args.period))
       /\ obj.index >= 1
              => /\ obj.rolling_sum =
                        DirectPriceVolume(args.data, args.volume, obj.index - 1, args.period)
                 /\ obj.rolling_sum_vol = DirectVolume(args.volume, obj.index - 1, args.period)
       /\ RunComplete => Len(Emitted) = Len(args.data) - args.period + 1

\* a Vwma of period 2 over prices and volumes that change, run to its end
C20_Witness ==
    /\ args.kind = "Vwma" /\ args.period = 2
    /\ args.data = <<1, 2, 1, 2>> /\ args.volume = <<2, 0, 1, 2>>
    /\ last = "None" /\ Len(out) = 3
    /\ out[3] = Q(5, 3)

\* sum of |data[i] - data[i-1]| for i in t-period+1..=t, computed directly
DirectRoc(data, t, period) ==
    RSum([j \in 1..period |-> Z(Abs(At(data, t - period + j) - At(data, t - period + j - 1)))])

\* |data[t] - data[t-period]| / sum_roc, 0 when sum_roc is 0
DirectEr(data, t, period) ==
    IF DirectRoc(data, t, period) = Z(0) THEN Z(0)
    ELSE RDiv(Z(Abs(At(data, t) - At(data, t - period))), DirectRoc(data, t, period))

\* (ER * (fast_sc - slow_sc) + slow_sc)^2
DirectSc(er, fast, slow) ==
    LET sc == RAdd(RMul(er, RSub(Q(2, fast + 1), Q(2, slow + 1))), Q(2, slow + 1))
    IN  RMul(sc, sc)

\* the value before the k-th one: the seed data[period-1], or the value yielded
KamaBefore(k) == IF k = 1 THEN Z(At(args.data, args.period - 1)) ELSE Emitted[k - 1]

\* ------------------------------------------------------------------------
\* C21: KAMA recurrence.  Kama is seeded with data[period-1] and yields one
\* value for each raw index t = period..len-1; at index t sum_roc is the
\* direct sum of |data[i]-data[i-1]| over i in t-period+1..=t, ER is
\* |data[t]-data[t-period]| / sum_roc (0 when sum_roc is 0), SC is
\* (ER*(fast_sc-slow_sc)+slow_sc)^2 and the value is
\* prev_kama + SC*(data[t]-prev_kama).
\* ------------------------------------------------------------------------
C21_KamaRecurrence ==
    (args.kind = "Kama" /\ phase = "live")
    => /\ \A k \in 1..Len(Emitted) :
              Emitted[k] =
                  RAdd(KamaBefore(k),
                       RMul(DirectSc(DirectEr(args.data, args.period + k - 1, args.period),
                                     args.fast, args.slow),
                            RSub(Z(At(args.data, args.period + k - 1)), KamaBefore(k))))
       /\ obj.index > args.period
              => obj.sum_roc = DirectRoc(args.data, obj.index - 1, args.period)
       /\ Len(Emitted) = 0 /\ calcs = 0
              => obj.prev_kama = Z(At(args.data, args.period - 1))
       /\ calcs <= 1 => obj.index = args.period + Len(Emitted)
       /\ RunComplete => Len(Emitted) = Len(args.data) - args.period

\* a Kama of period 2 over prices that go up and down, run to its end
C21_Witness ==
    /\ args.kind = "Kama" /\ args.period = 2 /\ args.data = <<1, 2, 1, 2>>
    /\ last = "None" /\ Len(out) = 2
    /\ out[1] # out[2]

\* sum of data[j]^2 for j in i..i+period, computed directly
DirectSq(data, i, period) ==
    RSum([j \in 1..period |-> Z(At(data, i + j - 1) * At(data, i + j - 1))])

\* ------------------------------------------------------------------------
\* C22: StdDev rolling sum of squares.  At every output position i sum_sq is
\* the direct sum of data[j]^2 over j in i..i+period, the mean is the i-th
\* value of an Sma over the same data and period, and the value yielded is
\* sqrt(sum_sq/(period-ddof) - mean^2); StdDev::new does not panic on inputs
\* that pass its period and length checks, whatever ddof.
\* ------------------------------------------------------------------------
C22_StdDevRolling ==
    /\ (args.kind = "StdDev" /\ args.period > 0 /\ Len(args.data) >= args.period
            /\ phase # "call")
       => (obj.kind = "StdDev" /\ err = "")
    /\ (args.kind = "StdDev" /\ phase \in {"live", "panicked"})
       => /\ \A k \in 1..Len(Emitted) :
                 Emitted[k] =
                     RSqrt(RSub(RDiv(DirectSq(args.data, k - 1, args.period),
                                     Z(args.period - args.ddof)),
                                RMul(DirectMean(args.data, k - 1, args.period),
                                     DirectMean(args.data, k - 1, args.period))))
          /\ obj.index >= 1
                 => obj.sum_sq = DirectSq(args.data, obj.index - 1, args.period)

\* the sample standard deviation (ddof 1) of period 2 over prices that
\* change, run to its end
C22_Witness ==
    /\ args.kind = "StdDev" /\ args.period = 2 /\ args.ddof = 1
    /\ args.data = <<1, 2, 2, 1>>
    /\ last = "None" /\ Len(out) = 3
    /\ out[1] # out[2]

\* what the selector instance passed to the band indicator yields on its own
SelectorRun == Drain(Selector(args), "debug", <<>>).vals

\* sqrt((sum of data[j]^2 over the window)/period - (SMA of the window)^2)
DirectStd(data, i, period) ==
    RSqrt(RSub(RDiv(DirectSq(data, i, period), Z(period)),
               RMul(DirectMean(data, i, period), DirectMean(data, i, period))))

\* the middle band of position k - 1: the SMA of the window for the SMA
\* variant, the value of the selector's instance otherwise
DirectMiddle(k) ==
    IF args.ma = "Sma" THEN DirectMean(args.data, k - 1, args.period)
    ELSE SelectorRun[k]

C24_BothStepped ==
    [][(phase = "live" /\ obj.kind = "BBands" /\ op' = "next" /\ last' = "Some")
       => /\ obj'.sma = SmaNext(obj.sma).obj
          /\ obj'.ma_type = MaNext(obj.ma_type).obj]_vars

\* the number of values an indicator over the caller's input yields in all,
\* from the guard at the top of its next()
Yields(a) ==
    CASE a.kind = "Dema" -> saturating_sub(InputLen(a), 2 * a.period - 2)
      [] a.kind = "Tema" -> saturating_sub(InputLen(a), 3 * a.period - 3)
      [] a.kind \in {"Atr", "Kama"} -> InputLen(a) - a.period
      [] OTHER -> InputLen(a) - a.period + 1

\* where the cursor of a fresh Kama stands: on the price its first step reads
KamaStart(a) == IF a.kind = "Kama" THEN a.period ELSE 0

\* a next() call on a live instance has just returned r
Returned(r) == phase = "live" /\ op' = "next" /\ last' = r

\* ------------------------------------------------------------------------
\* C25 (as claimed): the cursor of every indicator is 0 after construction.
\* ------------------------------------------------------------------------
C25_StartsAtZero ==
    (phase = "live" /\ op = "new") => obj.index = 0

\* ------------------------------------------------------------------------
\* C25 (amended): the cursor is 0 after construction for every indicator but
\* Kama, whose cursor starts at period; each next() that returns a value
\* adds exactly 1 to it, a next() that returns None leaves it alone, and it
\* never passes its start plus the number of values the input allows.
\* ------------------------------------------------------------------------
C25_CursorDiscipline ==
    /\ []((phase = "live" /\ op = "new") => obj.index = KamaStart(args))
    /\ []((phase \in {"live", "panicked"})
            => (obj.index >= KamaStart(args)
                /\ obj.index <= KamaStart(args) + Yields(args)))
    /\ [][/\ Returned("Some") => obj'.index = obj.index + 1
          /\ Returned("None") => obj'.index = obj.index]_vars

\* a Kama two steps into its run, and then told there is no more
C25_Witness ==
    /\ args.kind = "Kama" /\ args.period = 2 /\ Len(args.data) = 4
    /\ last = "None" /\ prev = "Some" /\ Len(out) = 2
    /\ obj.index = 4

\* the last Min(n, c) of the n values pushed so far, oldest first
Retained(c) == SubSeq(pushed, Len(pushed) - Min(Len(pushed), c) + 1, Len(pushed))

\* ------------------------------------------------------------------------
\* C26: CircularBuffer FIFO content.  After pushing v1..vn into a buffer of
\* capacity c >= 1 the buffer holds exactly the last min(n, c) pushed values
\* in insertion order, front() is the oldest retained value (None when
\* n = 0), and is_full() is true if and only if n >= c.
\* ------------------------------------------------------------------------
C26_Fifo ==
    (ring.kind = "CircularBuffer" /\ ring.capacity >= 1)
    => /\ ring.buffer = Retained(ring.capacity)
       /\ front(ring) = IF Len(pushed) = 0 THEN NoVal
                        ELSE [none |-> FALSE, val |-> Retained(ring.capacity)[1]]
       /\ is_full(ring) <=> Len(pushed) >= ring.capacity

\* a buffer of capacity 2 after three pushes: the first value is gone
C26_Witness ==
    /\ ring.kind = "CircularBuffer" /\ ring.capacity = 2
    /\ pushed = <<1, 2, 1>>
    /\ ring.buffer = <<2, 1>>
    /\ front(ring).val = 2
    /\ is_full(ring)

\* a Kama step is being taken from this state
KamaStepping == phase = "live" /\ obj.kind = "Kama" /\ op' = "next" /\ last' = "Some"

\* a is between lo and hi, ends included
Within(a, lo, hi) == ~RLt(a, lo) /\ ~RLt(hi, a)

\* ------------------------------------------------------------------------
\* C27 (in exact arithmetic): at every Kama step the efficiency ratio lies
\* in [0, 1] and the smoothing constant between slow_sc^2 and fast_sc^2.
\* ------------------------------------------------------------------------
C27_ExactRange ==
    [][KamaStepping
       => /\ Within(calculate_er(obj, obj.index, obj'.sum_roc), Z(0), Z(1))
          /\ Within(calculate_sc(obj, calculate_er(obj, obj.index, obj'.sum_roc)),
                    RMul(obj.slow, obj.slow), RMul(obj.fast, obj.fast))]_vars

\* ------------------------------------------------------------------------
\* C27 (as claimed): at every Kama step the efficiency ratio lies in [0, 1]
\* (the net displacement |data[t] - data[t-period]| never exceeds the rolling
\* path length sum_roc), so the smoothing constant lies between slow_sc^2
\* and fast_sc^2 when fast <= slow.  Here with the roundings of f64.
\* ------------------------------------------------------------------------
C27_ErRange ==
    [][KamaStepping
       => /\ Within(Fcalculate_er(obj, obj.index, obj'.sum_roc), Z(0), Z(1))
          /\ Within(Fcalculate_sc(obj, Fcalculate_er(obj, obj.index, obj'.sum_roc)),
                    Fl(RMul(obj.slow, obj.slow)), Fl(RMul(obj.fast, obj.fast)))]_vars

\* a value of StdDev that is a number: neither NaN nor infinite
IsNumber(x) == x.b.d # 0

\* ------------------------------------------------------------------------
\* C28: StdDev does not validate ddof.  For period > 0 and data.len() >=
\* period StdDev::new succeeds for every ddof and keeps it; each step then
\* divides sum_sq by the usize difference period - ddof.  With ddof < period
\* every value is a number; with ddof == period the divisor is 0 and every
\* value is infinite; with ddof > period the subtraction underflows: the
\* step panics where overflow is checked and yields NaN where it wraps.
\* ------------------------------------------------------------------------
C28_DdofUnchecked ==
    (args.kind = "StdDev" /\ args.period > 0 /\ Len(args.data) >= args.period
        /\ phase # "call")
    => /\ obj.kind = "StdDev" /\ err = "" /\ obj.ddof = args.ddof
       /\ args.ddof < args.period
              => (phase = "live" /\ \A k \in 1..Len(Emitted) : IsNumber(Emitted[k]))
       /\ args.ddof = args.period
              => (phase = "live"
                  /\ \A k \in 1..Len(Emitted) : Emitted[k] = Lin(Q(1, 0), Z(0), 1))
       /\ (args.ddof > args.period /\ args.build = "debug")
              => /\ Emitted = <<>>
                 /\ op \in {"next", "calculate"} => phase = "panicked"
       /\ (args.ddof > args.period /\ args.build = "release")
              => (phase = "live" /\ \A k \in 1..Len(Emitted) : Emitted[k] = LinNaN)

\* a StdDev whose ddof equals its period has yielded an infinite value
C28_Witness ==
    /\ args.kind = "StdDev" /\ args.period = 2 /\ args.ddof = 2
    /\ args.data = <<1, 2, 2>>
    /\ op = "next" /\ last = "Some" /\ Len(out) = 2
    /\ ~IsNumber(out[2])

\* what size_hint() returns in the current state
SizeHint ==
    CASE obj.kind = "Sma" -> SmaSizeHint(obj)
      [] obj.kind = "Atr" -> AtrSizeHint(obj)
      [] obj.kind = "Tema" -> TemaSizeHint(obj)
      [] obj.kind = "Bbpb" -> BbpbSizeHint(obj)

\* the number of values the next() calls to come will yield
StillToYield == Len(Drain(obj, args.build, <<>>).vals)

\* ------------------------------------------------------------------------
\* C29 (as claimed): for Sma, Atr, Tema and Bbpb, in every reachable state
\* (fresh, partially consumed, exhausted) size_hint() returns (n, Some(n))
\* with n the number of values the next() calls to come will yield.
\* ------------------------------------------------------------------------
C29_SizeHintExact ==
    (phase = "live" /\ obj.kind \in {"Sma", "Atr", "Tema", "Bbpb"})
    => SizeHint = <<StillToYield, [none |-> FALSE, val |-> StillToYield]>>

\* the cursors of a composite indicator and of the indicators it owns agree,
\* and the owner is at its end exactly when they are
Lockstep ==
    /\ obj.kind = "Bbpb"
           => /\ obj.index = obj.bbands.index
              /\ obj.bbands.index = obj.bbands.sma.index
              /\ BbpbNext(obj).ret = "None" <=> BBandsNext(obj.bbands).ret = "None"
              /\ BbpbNext(obj).ret = "None" <=> SmaNext(obj.bbands.sma).ret = "None"
    /\ obj.kind = "BBands"
           => /\ obj.index = obj.sma.index
              /\ BBandsNext(obj).ret = "None" <=> SmaNext(obj.sma).ret = "None"
    /\ obj.kind = "StdDev"
           => /\ obj.index = obj.sma.index
              /\ StdDevNext(obj, args.build).ret = "None" <=> SmaNext(obj.sma).ret = "None"

\* ------------------------------------------------------------------------
\* C30: composite cursors stay in lockstep.  After any sequence of next()
\* calls on a Bbpb, Bbpb.index equals the inner BBands.index, which equals
\* the index of the Sma owned by that BBands (likewise StdDev.index and the
\* index of its Sma); the outer indicator returns None exactly when the
\* inner ones are exhausted, and with an SMA selector no inner unwrap meets
\* None: no call panics.
\* ------------------------------------------------------------------------
C30_Lockstep ==
    /\ phase = "live" => Lockstep
    /\ (args.kind \in BandKinds /\ args.ma = "Sma") => phase # "panicked"

\* a Bbpb around an SMA selector, run to its end one call at a time
C30_Witness ==
    /\ args.kind = "Bbpb" /\ args.ma = "Sma" /\ args.period = 2
    /\ Len(args.data) = 4
    /\ op = "next" /\ last = "None" /\ Len(out) = 3
    /\ obj.index = 3 /\ obj.bbands.index = 3 /\ obj.bbands.sma.index = 3
====
